---- MODULE Spec2Model ----
(***************************************************************************)
(* A model of the token-rate benchmark of model_token_rate_test.py:        *)
(* TokenRateTester.call_model_api (one probe), test_concurrency (one       *)
(* level: N concurrent probes joined by asyncio.gather, then the fold      *)
(* into a TestResult), run_all_tests (the sweep over the levels) and       *)
(* generate_text_report (the summary computed from self.results); and of   *)
(* the menu loop of main.py with its preflight (self_check.py) and its     *)
(* ConfigManager (config.py).                                              *)
(*                                                                         *)
(* The model starts in one of four situations: a stand-alone driver about  *)
(* to sweep a list of levels against an endpoint giving the common         *)
(* answers; a tester about to issue one probe against an endpoint that     *)
(* can give every class of answer; main.py at its menu; the loop of        *)
(* test_concurrency over a list of collected values, as                    *)
(* test_tool.py test_error_handling runs it.  A probe is a task that is    *)
(* suspended at the two awaits of call_model_api; the tasks of a level     *)
(* are resumed in any order.                                               *)
(*                                                                         *)
(* Numbers.  Python floats are modelled as exact rationals <<n, d>> with   *)
(* d > 0 in lowest terms (so equal values are equal tuples); time is       *)
(* counted in integer ticks.  Rounding of floating point arithmetic and    *)
(* the :.2f / :.1f formatting of the printed report are not modelled: the  *)
(* report holds the values that are formatted.                             *)
(***************************************************************************)
EXTENDS Integers, Sequences, FiniteSets, TLC

VARIABLES
    config,             \* self.config of the tester / model_cfg of main.py
    config_mgr,         \* the ConfigManager of main.py: models, active_index
    model_cfg_idx,      \* where in config_mgr.models the object is that
                        \* model_cfg of main.py is bound to, counted from 1;
                        \* 0 when it is bound to none of them
    server,             \* the endpoint under test: which answers it can give
    preflight,          \* what safe_self_check returned in this pass of the
                        \* menu loop of main.py, if it has run
    concurrency_levels, \* the levels the sweep iterates over (line 215 / 221)
    pc,                 \* position of the driver
    li,                 \* number of levels entered so far
    tasks,              \* where each task of the level in flight stands
    requests,           \* per probe: the JSON body it posts
    wire,               \* per probe: what the transport answered
    responses,          \* per probe: the value asyncio.gather collects
    results,            \* self.results
    report              \* what generate_text_report returned / raised

vars == <<config, config_mgr, model_cfg_idx, server, preflight,
          concurrency_levels, pc, li,
          tasks, requests, wire, responses, results, report>>

(***************************************************************************)
(* Bounds of the model.                                                    *)
(***************************************************************************)
MaxConcurrency == 2     \* largest concurrency level of a sweep
MaxLevels == 2          \* most levels in a sweep
MaxWork == 5            \* most levels plus probes in a sweep
MaxChunks == 2          \* most chunks of a streamed answer

TimeValues == {0, 1}    \* values one time.time() read may return (ticks)
TokenCounts == {1, 2}   \* usage.total_tokens values a server may report

(***************************************************************************)
(* Python arithmetic on exact rationals.                                   *)
(***************************************************************************)
Abs(x) == IF x < 0 THEN -x ELSE x

RECURSIVE Gcd(_, _)
Gcd(a, b) == IF b = 0 THEN a ELSE Gcd(b, a % b)

\* n / d for d # 0, in lowest terms with a positive denominator
Rat(n, d) ==
    LET g == Gcd(Abs(n), Abs(d))
        s == IF d < 0 THEN -1 ELSE 1
    IN  <<(s * n) \div g, (s * d) \div g>>

Zero == <<0, 1>>

RatLess(a, b) == a[1] * b[2] < b[1] * a[2]
RatMul(a, b) == Rat(a[1] * b[1], a[2] * b[2])
RatDiv(a, b) == Rat(a[1] * b[2], a[2] * b[1])
RatOfInt(n) == <<n, 1>>

RECURSIVE Sum(_)
Sum(s) == IF s = <<>> THEN 0 ELSE Head(s) + Sum(Tail(s))

RECURSIVE Min(_)
Min(s) == IF Len(s) = 1 THEN s[1]
          ELSE LET m == Min(Tail(s)) IN IF m < s[1] THEN m ELSE s[1]

RECURSIVE Max(_)
Max(s) == IF Len(s) = 1 THEN s[1]
          ELSE LET m == Max(Tail(s)) IN IF m > s[1] THEN m ELSE s[1]

(***************************************************************************)
(* Values.  A Python value that may be an int or None is a record          *)
(* [t, v]; a dict is a record whose fields are its keys plus `type`.       *)
(***************************************************************************)
IntVal(n) == [t |-> "int", v |-> n]
NoneVal == [t |-> "none", v |-> 0]

\* dict.get(key, default)
DictGet(d, key, default) == IF key \in DOMAIN d THEN d[key] ELSE default

Pending == [type |-> "pending"]

(***************************************************************************)
(* What the transport can answer to one POST (lines 95-101): an exception  *)
(* out of session.post / response.text, or a status with a body.  A body   *)
(* is abstracted to what the parser of lines 105-108 reads from it:        *)
(* "text" is not JSON, "not_json" likewise under status 200; "no_choices"  *)
(* is a JSON object in which a key on the way to                           *)
(* choices[0].message.content is missing, "empty_choices" one whose        *)
(* choices is the empty list, "not_subscriptable" JSON in which a value    *)
(* on that way cannot be indexed (the document is a list or null, message  *)
(* is null); "ok" is JSON with choices[0].message.content.  An             *)
(* "ok" body names its content and its usage: "absent" (no usage key, or   *)
(* a usage object without total_tokens), "not_object" (usage is null or    *)
(* another non-object), "null_count" (total_tokens is null), "count".      *)
(***************************************************************************)
\* the answers of the endpoint of a sweep
WireResponses ==
    {[kind |-> "conn_error"]}
    \cup {[kind |-> "http", status |-> 500, body |-> "text"]}
    \cup {[kind |-> "http", status |-> 200, body |-> "no_choices"]}
    \cup {[kind |-> "http", status |-> 200, body |-> "ok",
           content |-> "text", usage |-> u] : u \in {"absent", "null_count"}}
    \cup {[kind |-> "http", status |-> 200, body |-> "ok",
           content |-> "text", usage |-> "count", total_tokens |-> t] :
            t \in TokenCounts}

\* contents of choices[0].message.content: plain text, the empty string,
\* text holding the replacement character U+FFFD
Contents == {"text", "", "text<U+FFFD>"}

\* every class of answer: also a request that runs out of time, bytes
\* response.text() cannot decode, a 2xx status other than 200 over a
\* complete body, every way for lines 105-106 to fail, every content, a
\* usage that is no object
AllWireResponses ==
    WireResponses
    \cup {[kind |-> "timeout"], [kind |-> "decode_error"]}
    \cup {[kind |-> "http", status |-> 200, body |-> b] :
            b \in {"not_json", "empty_choices", "not_subscriptable"}}
    \cup {[kind |-> "http", status |-> 201, body |-> "ok",
           content |-> "text", usage |-> "count", total_tokens |-> 1]}
    \cup {[kind |-> "http", status |-> 200, body |-> "ok",
           content |-> c, usage |-> u] :
            c \in Contents, u \in {"absent", "not_object", "null_count"}}
    \cup {[kind |-> "http", status |-> 200, body |-> "ok",
           content |-> c, usage |-> "count", total_tokens |-> t] :
            c \in Contents, t \in TokenCounts}

\* the answers of the endpoint named srv
Answers(srv) ==
    IF srv = "any answer" THEN AllWireResponses ELSE WireResponses

\* the answers with which session.post raises (line 95): no connection,
\* or the time of ClientTimeout(total=...) is over
RaisedAtPost == {"conn_error", "timeout"}

\* the answers with which response.text() raises (line 101): the time is
\* over, or the bytes cannot be decoded
RaisedAtText == {"timeout", "decode_error"}

\* the status lines of the endpoint named srv
Statuses(srv) == {w.status : w \in {x \in Answers(srv) : x.kind = "http"}}

\* where a task of the level in flight stands: created and not yet run;
\* suspended at an await of call_model_api, [at |-> "line 95", ...] or
\* [at |-> "line 101", ...]; returned
Created == [at |-> "created"]
Returned == [at |-> "returned"]

\* line 120: f"HTTP {response.status}: {response_text}"
HttpError(status, response_text) ==
    [text |-> "HTTP {status}: {response_text}", status |-> status,
     response_text |-> response_text]

\* line 127: str(e), the message of the exception caught at line 123 (the
\* text of a message is not modelled, so one value stands for all of them)
StrOf(e) == [text |-> "str(e)"]

\* the exception lines 95-108 raise on an answer that does not get through
RaisedBy(w) ==
    IF w.kind = "conn_error" THEN "ClientConnectorError"      \* line 95
    ELSE IF w.kind = "timeout" THEN "TimeoutError"            \* lines 95-101
    ELSE IF w.kind = "decode_error" THEN "UnicodeDecodeError" \* line 101
    ELSE IF w.body = "not_json" THEN "JSONDecodeError"        \* line 105
    ELSE IF w.body = "no_choices" THEN "KeyError"             \* line 106
    ELSE IF w.body = "empty_choices" THEN "IndexError"        \* line 106
    ELSE IF w.body = "not_subscriptable" THEN "TypeError"     \* line 106
    ELSE "AttributeError"                                     \* line 108

\* the dict of lines 118-122 and 125-129
Failure(error, start, end) ==
    [type |-> "dict", success |-> FALSE, error |-> error,
     response_time |-> end - start]

\* the dict of lines 110-116 (raw_response is not read anywhere)
Success(content, tokens, start, end) ==
    [type |-> "dict", success |-> TRUE, content |-> content,
     tokens |-> tokens, response_time |-> end - start]

\* usage.get('total_tokens') without the default
UsageTokens_NoDefault(w) ==
    IF w.usage \in {"absent", "null_count"} THEN NoneVal
    ELSE IntVal(w.total_tokens)

\* lines 107-108: usage = response_data.get('usage', {});
\* tokens = usage.get('total_tokens', 0), for a usage that is an object
UsageTokens(w) ==
    IF w.usage = "absent" THEN IntVal(0)
    ELSE IF w.usage = "null_count" THEN NoneVal
    ELSE IntVal(w.total_tokens)

\* the status test accepting every 2xx status
StatusOk_Any2xx(status) == status \in 200..299

\* line 104: response.status == 200
StatusOk(status) == status = 200

\* the reason of a failure as one kind of a closed taxonomy
ClassifiedError(w) ==
    IF w.kind = "conn_error" THEN [kind |-> "transport-error"]
    ELSE IF w.kind = "timeout" THEN [kind |-> "timeout"]
    ELSE IF w.kind = "decode_error" THEN [kind |-> "decode-error"]
    ELSE IF ~StatusOk(w.status)
    THEN [kind |-> "http-error", status |-> w.status]
    ELSE [kind |-> "malformed-response"]

\* call_model_api classifying its failures instead of keeping their text
call_model_api_Classified(w, start, end) ==
    IF w.kind # "http"
    THEN Failure(ClassifiedError(w), start, end)
    ELSE IF StatusOk(w.status)
         THEN IF w.body = "ok" /\ w.usage # "not_object"
              THEN Success(w.content, UsageTokens(w), start, end)
              ELSE Failure(ClassifiedError(w), start, end)
         ELSE Failure(ClassifiedError(w), start, end)

\* call_model_api failing a content that holds the replacement character
call_model_api_ChecksContent(w, start, end) ==
    IF w.kind # "http"
    THEN Failure(StrOf(RaisedBy(w)), start, end)
    ELSE IF StatusOk(w.status)
         THEN IF w.body = "ok" /\ w.usage # "not_object"
              THEN IF w.content # "text<U+FFFD>"
                   THEN Success(w.content, UsageTokens(w), start, end)
                   ELSE Failure([kind |-> "corrupted-content"], start, end)
              ELSE Failure(StrOf(RaisedBy(w)), start, end)
         ELSE Failure(HttpError(w.status, w.body), start, end)

\* call_model_api catching only the transport's errors: what json.loads
\* or the field lookups of lines 105-108 raise leaves the coroutine, and
\* gather(return_exceptions=True) collects the exception object
call_model_api_NarrowExcept(w, start, end) ==
    IF w.kind # "http"
    THEN Failure(StrOf(RaisedBy(w)), start, end)
    ELSE IF StatusOk(w.status)
         THEN IF w.body = "ok" /\ w.usage # "not_object"
              THEN Success(w.content, UsageTokens(w), start, end)
              ELSE [type |-> "exception"]
         ELSE Failure(HttpError(w.status, w.body), start, end)

\* call_model_api: start and end are the two time.time() reads
call_model_api(w, start, end) ==
    IF w.kind # "http"
    THEN Failure(StrOf(RaisedBy(w)), start, end)         \* lines 123-129
    ELSE IF StatusOk(w.status)
         THEN IF w.body = "ok" /\ w.usage # "not_object"
              THEN Success(w.content, UsageTokens(w), start, end)
                                                         \* lines 105-116
              ELSE Failure(StrOf(RaisedBy(w)), start, end)
                                                         \* raised in 105-108
         ELSE Failure(HttpError(w.status, w.body), start, end)
                                                         \* lines 117-122

(***************************************************************************)
(* Values the loop of lines 154-173 may be handed, after the list of       *)
(* test_tool.py test_error_handling: an exception object, a failure dict,  *)
(* a success dict, a value of another type; and dicts with keys missing    *)
(* or unexpected.                                                          *)
(***************************************************************************)
\* test_tool.py lines 141-146, the list the test folds
mock_responses ==
    << [type |-> "exception"],
       [type |-> "dict", success |-> FALSE, error |-> "text",
        response_time |-> 1],
       [type |-> "dict", success |-> TRUE, content |-> "text",
        tokens |-> IntVal(100), response_time |-> 2],
       [type |-> "other"] >>

MockResponses ==
    { [type |-> "exception"],
      [type |-> "other"],
      [type |-> "dict", success |-> FALSE, error |-> "text",
       response_time |-> 1],
      [type |-> "dict", success |-> FALSE, error |-> "text",
       tokens |-> IntVal(2), response_time |-> 1],
      [type |-> "dict", tokens |-> IntVal(2)],
      [type |-> "dict", success |-> TRUE, content |-> "text",
       tokens |-> IntVal(1), response_time |-> 1],
      [type |-> "dict", success |-> TRUE, content |-> "text"] }

(***************************************************************************)
(* test_concurrency, lines 148-188: the fold of the collected responses.   *)
(***************************************************************************)
\* lines 149-152
EmptyAcc ==
    [total_tokens |-> 0, success_count |-> 0, error_count |-> 0,
     response_times |-> <<>>, raised |-> FALSE]

\* FoldResponse without the final else branch of lines 171-173
FoldResponse_NoElse(acc, response) ==
    IF acc.raised THEN acc
    ELSE IF response.type = "exception"
    THEN [acc EXCEPT !.error_count = @ + 1]
    ELSE IF response.type = "dict" /\ DictGet(response, "success", FALSE)
    THEN LET tokens == DictGet(response, "tokens", IntVal(0))
         IN  IF tokens.t = "none"
             THEN [acc EXCEPT !.success_count = @ + 1, !.raised = TRUE]
             ELSE [acc EXCEPT
                     !.success_count = @ + 1,
                     !.total_tokens = @ + tokens.v,
                     !.response_times =
                         Append(@, DictGet(response, "response_time", 0))]
    ELSE IF response.type = "dict"
    THEN [acc EXCEPT !.error_count = @ + 1]
    ELSE acc

\* FoldResponse adding the token field of every dict, failed or not
FoldResponse_FailureTokens(acc, response) ==
    IF acc.raised THEN acc
    ELSE IF response.type = "exception"
    THEN [acc EXCEPT !.error_count = @ + 1]
    ELSE IF response.type = "dict" /\ DictGet(response, "success", FALSE)
    THEN LET tokens == DictGet(response, "tokens", IntVal(0))
         IN  IF tokens.t = "none"
             THEN [acc EXCEPT !.success_count = @ + 1, !.raised = TRUE]
             ELSE [acc EXCEPT
                     !.success_count = @ + 1,
                     !.total_tokens = @ + tokens.v,
                     !.response_times =
                         Append(@, DictGet(response, "response_time", 0))]
    ELSE IF response.type = "dict"
    THEN [acc EXCEPT !.error_count = @ + 1,
                     !.total_tokens =
                         @ + DictGet(response, "tokens", IntVal(0)).v]
    ELSE [acc EXCEPT !.error_count = @ + 1]

\* FoldResponse recording the elapsed time of every dict, failed or not
FoldResponse_FailureTimes(acc, response) ==
    IF acc.raised THEN acc
    ELSE IF response.type = "exception"
    THEN [acc EXCEPT !.error_count = @ + 1]
    ELSE IF response.type = "dict" /\ DictGet(response, "success", FALSE)
    THEN LET tokens == DictGet(response, "tokens", IntVal(0))
         IN  IF tokens.t = "none"
             THEN [acc EXCEPT !.success_count = @ + 1, !.raised = TRUE]
             ELSE [acc EXCEPT
                     !.success_count = @ + 1,
                     !.total_tokens = @ + tokens.v,
                     !.response_times =
                         Append(@, DictGet(response, "response_time", 0))]
    ELSE IF response.type = "dict"
    THEN [acc EXCEPT !.error_count = @ + 1,
                     !.response_times =
                         Append(@, DictGet(response, "response_time", 0))]
    ELSE [acc EXCEPT !.error_count = @ + 1]

\* one pass of the loop body, lines 155-173
FoldResponse(acc, response) ==
    IF acc.raised THEN acc
    ELSE IF response.type = "exception"
    THEN [acc EXCEPT !.error_count = @ + 1]
    ELSE IF response.type = "dict" /\ DictGet(response, "success", FALSE)
    THEN LET tokens == DictGet(response, "tokens", IntVal(0))
         IN  IF tokens.t = "none"
             THEN [acc EXCEPT !.success_count = @ + 1, !.raised = TRUE]
             ELSE [acc EXCEPT
                     !.success_count = @ + 1,
                     !.total_tokens = @ + tokens.v,
                     !.response_times =
                         Append(@, DictGet(response, "response_time", 0))]
    ELSE IF response.type = "dict"
    THEN [acc EXCEPT !.error_count = @ + 1]
    ELSE [acc EXCEPT !.error_count = @ + 1]

RECURSIVE FoldFrom(_, _, _)
FoldFrom(acc, rs, i) ==
    IF i > Len(rs) THEN acc ELSE FoldFrom(FoldResponse(acc, rs[i]), rs, i + 1)

\* the whole loop, line 154
AnalyzeResponses(rs) == FoldFrom(EmptyAcc, rs, 1)

\* the rate guarded against a zero batch time only
TokensPerSecond_ZeroGuard(total_tokens, total_time) ==
    IF total_time # 0 THEN Rat(total_tokens, total_time) ELSE Zero

\* line 176
TokensPerSecond(total_tokens, total_time) ==
    IF total_time > 0 THEN Rat(total_tokens, total_time) ELSE Zero

\* line 185
AvgResponseTime(response_times) ==
    IF response_times # <<>>
    THEN Rat(Sum(response_times), Len(response_times)) ELSE Zero

\* line 186
MinResponseTime(response_times) ==
    IF response_times # <<>> THEN Min(response_times) ELSE 0

\* line 187
MaxResponseTime(response_times) ==
    IF response_times # <<>> THEN Max(response_times) ELSE 0

\* lines 175-188
TestResult(concurrency, acc, total_time) ==
    [concurrency |-> concurrency,
     total_tokens |-> acc.total_tokens,
     total_time |-> total_time,
     tokens_per_second |-> TokensPerSecond(acc.total_tokens, total_time),
     success_count |-> acc.success_count,
     error_count |-> acc.error_count,
     avg_response_time |-> AvgResponseTime(acc.response_times),
     min_response_time |-> MinResponseTime(acc.response_times),
     max_response_time |-> MaxResponseTime(acc.response_times)]

(***************************************************************************)
(* generate_text_report, lines 248-318: the values the report prints.      *)
(***************************************************************************)
\* the rate left as a fraction, not multiplied by 100
SuccessRate_Fraction(r) ==
    LET total_requests == r.success_count + r.error_count
    IN  IF total_requests > 0
        THEN Rat(r.success_count, total_requests) ELSE Zero

\* lines 281-282 (and line 333 of generate_chart_report)
SuccessRate(r) ==
    LET total_requests == r.success_count + r.error_count
    IN  IF total_requests > 0
        THEN Rat(r.success_count * 100, total_requests) ELSE Zero

RECURSIVE SumOver(_, _)
SumOver(rs, field) ==
    IF rs = <<>> THEN 0 ELSE Head(rs)[field] + SumOver(Tail(rs), field)

\* lines 262-265
OverallSuccessRate(rs) ==
    LET total_requests == SumOver(rs, "success_count") + SumOver(rs, "error_count")
    IN  IF total_requests > 0
        THEN Rat(SumOver(rs, "success_count") * 100, total_requests) ELSE Zero

\* a scan that also replaces the candidate by an element with an equal key
RECURSIVE MaxScan_LastWins(_, _, _)
MaxScan_LastWins(rs, i, best) ==
    IF i > Len(rs) THEN best
    ELSE MaxScan_LastWins(rs, i + 1,
                 IF RatLess(rs[i].tokens_per_second, rs[best].tokens_per_second)
                 THEN best ELSE i)

\* Python's max(iterable, key=...): a scan that replaces the candidate only
\* by an element whose key is strictly greater
RECURSIVE MaxScan(_, _, _)
MaxScan(rs, i, best) ==
    IF i > Len(rs) THEN best
    ELSE MaxScan(rs, i + 1,
                 IF RatLess(rs[best].tokens_per_second, rs[i].tokens_per_second)
                 THEN i ELSE best)

\* line 298: the index in self.results of best_concurrency
BestIndex(rs) == MaxScan(rs, 2, 1)

\* the efficiency capped at 100
Efficiency_Clamped(baseline, result) ==
    LET expected_tokens ==
            RatMul(baseline.tokens_per_second, RatOfInt(result.concurrency))
        actual_tokens ==
            RatMul(result.tokens_per_second, RatOfInt(result.concurrency))
        e == IF RatLess(Zero, expected_tokens)
             THEN RatMul(RatDiv(actual_tokens, expected_tokens), RatOfInt(100))
             ELSE Zero
    IN  IF RatLess(RatOfInt(100), e) THEN RatOfInt(100) ELSE e

\* lines 306-308
Efficiency(baseline, result) ==
    LET expected_tokens ==
            RatMul(baseline.tokens_per_second, RatOfInt(result.concurrency))
        actual_tokens ==
            RatMul(result.tokens_per_second, RatOfInt(result.concurrency))
    IN  IF RatLess(Zero, expected_tokens)
        THEN RatMul(RatDiv(actual_tokens, expected_tokens), RatOfInt(100))
        ELSE Zero

\* lines 301-309: one entry per result after the first
Scalability(rs) ==
    IF Len(rs) > 1
    THEN [k \in 1..(Len(rs) - 1) |->
            [concurrency |-> rs[k + 1].concurrency,
             efficiency |-> Efficiency(rs[1], rs[k + 1])]]
    ELSE <<>>

\* lines 280-291: one row per result
ReportRows(rs) ==
    [k \in 1..Len(rs) |->
        [concurrency |-> rs[k].concurrency,
         tokens_per_second |-> rs[k].tokens_per_second,
         total_tokens |-> rs[k].total_tokens,
         total_time |-> rs[k].total_time,
         success_rate |-> SuccessRate(rs[k]),
         avg_response_time |-> rs[k].avg_response_time]]

NoReport == [status |-> "none"]

\* generate_text_report: max() of an empty list raises ValueError (line 298)
generate_text_report(rs) ==
    IF rs = <<>> THEN [status |-> "ValueError"]
    ELSE [status |-> "ok",
          total_requests |-> SumOver(rs, "success_count") + SumOver(rs, "error_count"),
          total_success |-> SumOver(rs, "success_count"),
          total_errors |-> SumOver(rs, "error_count"),
          success_rate |-> OverallSuccessRate(rs),
          rows |-> ReportRows(rs),
          best_index |-> BestIndex(rs),
          best_concurrency |-> rs[BestIndex(rs)].concurrency,
          best_tokens_per_second |-> rs[BestIndex(rs)].tokens_per_second,
          scalability |-> Scalability(rs)]

(***************************************************************************)
(* The sweep: run_all_tests (lines 213-227) around test_concurrency        *)
(* (lines 131-193), followed by the caller's generate_report.              *)
(***************************************************************************)
\* the lists of levels a sweep is run over
LevelLists ==
    {s \in UNION {[1..n -> 0..MaxConcurrency] : n \in 0..MaxLevels} :
        Len(s) + Sum(s) <= MaxWork}

\* the loop giving up once a level has ended with no success at all
HasNextLevel_StopWhenAllFailed(levels, entered, rs) ==
    /\ entered < Len(levels)
    /\ ~(\E k \in 1..Len(rs) :
            rs[k].success_count = 0 /\ rs[k].error_count > 0)

\* line 221: the for loop enters the next level while one is left; it does
\* not look at the results so far
HasNextLevel(levels, entered, rs) == entered < Len(levels)

\* gather without return_exceptions=True semantics: over as soon as one
\* task has ended in a failure
AllSettled_FirstFailure(rs) ==
    \/ \A i \in 1..Len(rs) : rs[i] # Pending
    \/ \E i \in 1..Len(rs) :
         rs[i] # Pending /\ ~(rs[i].type = "dict" /\ DictGet(rs[i], "success", FALSE))

\* line 145: gather(..., return_exceptions=True) returns when every task
\* has settled
AllSettled(rs) == \A i \in 1..Len(rs) : rs[i] # Pending

\* a task settles: gather stores its outcome at the task's position
GatherCollect(rs, i, r) == [rs EXCEPT ![i] = r]

(***************************************************************************)
(* Configurations.  TestConfig (model_token_rate_test.py lines 30-38) is   *)
(* what the stand-alone drivers build the tester over; ModelConfig         *)
(* (config.py lines 15-24) is a profile of the ConfigManager, the object   *)
(* main.py hands to the tester.  Both carry the fields call_model_api      *)
(* reads; only ModelConfig has api_type.                                   *)
(***************************************************************************)
\* config.py lines 8-13
SUPPORTED_API_TYPES == {"openai", "thirdparty", "vllm", "ollama"}

TestConfig ==
    [class |-> "TestConfig", model_name |-> "gpt-3.5-turbo",
     max_tokens |-> 2000, temperature |-> <<7, 10>>, timeout |-> 60]

\* a profile of the given api_type for the model gpt-3.5-turbo, the other
\* fields at the defaults of the dataclass
ModelConfig(api_type) ==
    [class |-> "ModelConfig", api_type |-> api_type,
     model_name |-> "gpt-3.5-turbo", max_tokens |-> 2000,
     temperature |-> <<7, 10>>, timeout |-> 60]

ModelConfigs == {ModelConfig(t) : t \in SUPPORTED_API_TYPES}

\* a request body shaped after the profile's api_type: a raw prompt for
\* vllm, options nested under "options" for ollama
Payload_ByFlavor(cfg, prompt) ==
    IF "api_type" \in DOMAIN cfg /\ cfg.api_type = "vllm"
    THEN [model |-> cfg.model_name, prompt |-> prompt,
          max_tokens |-> cfg.max_tokens, temperature |-> cfg.temperature,
          stream |-> FALSE]
    ELSE IF "api_type" \in DOMAIN cfg /\ cfg.api_type = "ollama"
    THEN [model |-> cfg.model_name, prompt |-> prompt,
          options |-> [num_predict |-> cfg.max_tokens,
                       temperature |-> cfg.temperature],
          stream |-> FALSE]
    ELSE [model |-> cfg.model_name,
          messages |-> <<[role |-> "user", content |-> prompt]>>,
          max_tokens |-> cfg.max_tokens, temperature |-> cfg.temperature,
          stream |-> FALSE]

\* lines 85-91: the JSON body of the POST
Payload(cfg, prompt) ==
    [model |-> cfg.model_name,
     messages |-> <<[role |-> "user", content |-> prompt]>>,
     max_tokens |-> cfg.max_tokens, temperature |-> cfg.temperature,
     stream |-> FALSE]

\* lines 137-141: the coroutines of one level, each over a prompt of
\* get_random_prompt (the text of the prompt is not modelled)
BuildRequests(cfg, concurrency) ==
    [i \in 1..concurrency |-> Payload(cfg, "prompt")]

(***************************************************************************)
(* The preflight of main.py: run_self_check (self_check.py lines 138-155)  *)
(* behind safe_self_check (main.py lines 30-40).                           *)
(***************************************************************************)
\* what one chunk of the streamed answer carries in delta.content: nothing,
\* white space, text
TokenPieces == {"", " ", "x"}

\* the streamed answer to the one-token "ping" request: the request or the
\* iteration raises, or the chunks arrive
Streams ==
    {[kind |-> "raises"]}
    \cup {[kind |-> "chunks", pieces |-> p] :
            p \in UNION {[1..n -> TokenPieces] : n \in 0..MaxChunks}}

NoStream == [kind |-> "none"]

\* self_check.py lines 46-126.  Lines 71-75 and 99-103: only a piece that is
\* not empty sets first_token_time and joins content; lines 77-79 and
\* 105-107: no such piece, False; lines 108-110, for the api types other
\* than ollama and vllm: content.strip() empty, False
check_api_key_stream(cfg, stream) ==
    IF stream.kind = "raises" THEN FALSE
    ELSE LET taken == {k \in 1..Len(stream.pieces) : stream.pieces[k] # ""}
         IN  IF taken = {} THEN FALSE
             ELSE IF cfg.api_type \in {"ollama", "vllm"} THEN TRUE
             ELSE \E k \in taken : stream.pieces[k] # " "

\* run_self_check going on after a failed streaming check
run_self_check_NoStreamExit(cfg, dependencies, fonts, network, stream) ==
    IF ~dependencies THEN "exit: dependencies"
    ELSE IF ~network THEN "exit: network"
    ELSE "returned"

\* self_check.py lines 138-155: sys.exit(1) at the first check that fails;
\* the result of check_matplotlib_fonts (line 145) is not looked at
run_self_check(cfg, dependencies, fonts, network, stream) ==
    IF ~dependencies THEN "exit: dependencies"
    ELSE IF ~network THEN "exit: network"
    ELSE IF ~check_api_key_stream(cfg, stream) THEN "exit: stream"
    ELSE "returned"

\* main.py lines 30-40: True when run_self_check returns, False when it
\* leaves through SystemExit
safe_self_check(outcome) == outcome = "returned"

\* what one run of run_self_check meets: the checks after the first one
\* that fails are not made, so their inputs are not drawn.  (A dependency
\* can only be found missing if it went away after start-up: self_check.py
\* itself imports openai and matplotlib at lines 5-6.)
SelfCheckInputs ==
    {[dependencies |-> FALSE, fonts |-> FALSE, network |-> FALSE,
      stream |-> NoStream]}
    \cup {[dependencies |-> TRUE, fonts |-> f, network |-> FALSE,
           stream |-> NoStream] : f \in BOOLEAN}
    \cup {[dependencies |-> TRUE, fonts |-> f, network |-> TRUE,
           stream |-> s] : f \in BOOLEAN, s \in Streams}

NoPreflight == [ran |-> FALSE]

\* the record of one safe_self_check call: the profile checked, how
\* run_self_check ended, the stream it saw if it got that far
PreflightOf(cfg, in) ==
    LET outcome == run_self_check(cfg, in.dependencies, in.fonts,
                                  in.network, in.stream)
    IN  [ran |-> TRUE, config |-> cfg, outcome |-> outcome,
         stream |-> in.stream, passed |-> safe_self_check(outcome)]

\* TokenRateTester.__init__(self, config), line 56, called with the given
\* number of positional arguments and the given keywords
TokenRateTesterInit(positional, keywords) ==
    IF positional + Cardinality(keywords \cap {"config"}) = 1
       /\ keywords \subseteq {"config"}
    THEN "constructed" ELSE "TypeError"

(***************************************************************************)
(* Typed text.  What the operator types at a prompt is a string; the str   *)
(* methods the code applies to it are given for the texts the model       *)
(* types.                                                                  *)
(***************************************************************************)
\* str(n) for the small naturals: DecimalTexts[n + 1] is the text of n
DecimalTexts == <<"0", "1", "2", "3", "4">>

\* the texts the model types: decimal numbers, the same with a blank in
\* front, nothing, a blank, a word, a negative number, and SUPERSCRIPT TWO
\* (a character that str.isdigit accepts and int rejects)
TypedTexts ==
    {DecimalTexts[k] : k \in 1..Len(DecimalTexts)}
        \cup {" 1", "", " ", "abc", "-1", "<U+00B2>"}

\* str.strip()
strip(x) ==
    CASE x = " 1" -> "1"
      [] x = " " -> ""
      [] OTHER -> x

\* str.isdigit(): every character is a digit, and there is at least one
isdigit(x) ==
    x = "<U+00B2>" \/ \E k \in 1..Len(DecimalTexts) : x = DecimalTexts[k]

\* int(x): blanks around the number and a sign in front of it are allowed;
\* ValueError otherwise
int(x) ==
    IF \E k \in 1..Len(DecimalTexts) : strip(x) = DecimalTexts[k]
    THEN [raised |-> FALSE,
          value |-> (CHOOSE k \in 1..Len(DecimalTexts) :
                        strip(x) = DecimalTexts[k]) - 1]
    ELSE IF \E k \in 1..Len(DecimalTexts) : strip(x) = "-" \o DecimalTexts[k]
    THEN [raised |-> FALSE,
          value |-> 1 - (CHOOSE k \in 1..Len(DecimalTexts) :
                            strip(x) = "-" \o DecimalTexts[k])]
    ELSE [raised |-> TRUE, error |-> "ValueError"]

\* float(x) for the texts the model types: a whole number as int reads
\* it, or "0.5"; ValueError otherwise
float(x) ==
    IF ~int(x).raised THEN [raised |-> FALSE, value |-> <<int(x).value, 1>>]
    ELSE IF strip(x) = "0.5" THEN [raised |-> FALSE, value |-> <<1, 2>>]
    ELSE [raised |-> TRUE, error |-> "ValueError"]

\* str.lower() for the texts the model types: "VLLM" is the one with
\* capitals
lower(x) == IF x = "VLLM" THEN "vllm" ELSE x

(***************************************************************************)
(* config.py: ConfigManager (lines 26-142).                                *)
(***************************************************************************)
MaxModels == 2          \* most profiles a ConfigManager holds

\* where seq[i] of a Python list is, i counted from 0 and a negative i
\* from the end: the position counted from 1, or 0 for an IndexError
PyPosition(seq, i) ==
    IF 0 <= i /\ i < Len(seq) THEN i + 1
    ELSE IF -Len(seq) <= i /\ i < 0 THEN Len(seq) + i + 1
    ELSE 0

\* seq[i] of a Python list
PyIndex(seq, i) ==
    IF PyPosition(seq, i) = 0
    THEN [raised |-> TRUE, error |-> "IndexError"]
    ELSE [raised |-> FALSE, value |-> seq[PyPosition(seq, i)]]

\* del seq[i] for 0 <= i < len(seq)
PyDel(seq, i) == [k \in 1..(Len(seq) - 1) |-> IF k <= i THEN seq[k] ELSE seq[k + 1]]

ConfigManager(models, active_index) ==
    [models |-> models, active_index |-> active_index]

\* no ConfigManager: the stand-alone drivers have none
NoConfigManager == [models |-> "none"]

\* the fields of the ModelConfig dataclass that the model carries
ModelConfigFields ==
    {"api_type", "model_name", "max_tokens", "temperature", "timeout"}

\* asdict(m), lines 54-57: the entry of a profile in config.json
asdict(m) == [f \in ModelConfigFields |-> m[f]]

\* what config.json may hold when main.py starts: no file; a file that is
\* no JSON object; an object with or without "models" (each entry one
\* that save wrote, or one with a key ModelConfig does not have) and with
\* or without "active_index"
FileEntries ==
    {asdict(m) : m \in ModelConfigs}
        \cup {[api_type |-> "openai", bogus |-> 1]}

ConfigFiles ==
    {[kind |-> "absent"], [kind |-> "not an object"]}
    \cup {[kind |-> "object", data |-> [type |-> "dict"]]}
    \cup {[kind |-> "object", data |-> [type |-> "dict", models |-> ms]] :
            ms \in UNION {[1..n -> FileEntries] : n \in 0..MaxModels}}
    \cup {[kind |-> "object",
           data |-> [type |-> "dict", models |-> ms, active_index |-> i]] :
            ms \in UNION {[1..n -> {asdict(m) : m \in ModelConfigs}] :
                            n \in 0..MaxModels},
            i \in -1..MaxModels}

\* ModelConfig(**m), line 37: TypeError for a key that is no field
ModelConfigOf(m) ==
    IF DOMAIN m \subseteq ModelConfigFields
    THEN [raised |-> FALSE,
          value |-> [class |-> "ModelConfig", api_type |-> m.api_type,
                     model_name |-> m.model_name,
                     max_tokens |-> m.max_tokens,
                     temperature |-> m.temperature,
                     timeout |-> m.timeout]]
    ELSE [raised |-> TRUE, error |-> "TypeError"]

\* lines 43-49: the default manager
DefaultConfigManager == ConfigManager(<<ModelConfig("openai")>>, 0)

\* ConfigManager.load, lines 31-49: models and active_index are taken
\* from the file as they are; any exception gives the default manager
load(file) ==
    IF file.kind = "object"
    THEN LET entries == DictGet(file.data, "models", <<>>)
             made == [k \in 1..Len(entries) |-> ModelConfigOf(entries[k])]
         IN  IF \E k \in 1..Len(made) : made[k].raised
             THEN DefaultConfigManager
             ELSE ConfigManager([k \in 1..Len(made) |-> made[k].value],
                                DictGet(file.data, "active_index", 0))
    ELSE DefaultConfigManager

\* what the operator types at the prompts of add_model and edit_model, for
\* the fields the model carries
Typed(api_type, model_name, max_tokens, temperature, timeout) ==
    [api_type |-> api_type, model_name |-> model_name,
     max_tokens |-> max_tokens, temperature |-> temperature,
     timeout |-> timeout]

\* add_model, lines 98-124: the typed texts are stripped; a type that is
\* not supported, lower-cased, becomes openai (lines 102-105); max_tokens
\* and timeout are converted when all digits and defaulted otherwise,
\* temperature is converted unless empty (lines 118-120), and a ValueError
\* of a conversion leaves add_model before anything is appended; the new
\* profile becomes the active one (lines 122-123)
add_model(mgr, typed) ==
    LET api_type == lower(strip(typed.api_type))
        max_tokens == strip(typed.max_tokens)
        temperature == strip(typed.temperature)
        timeout == strip(typed.timeout)
    IN  IF isdigit(max_tokens) /\ int(max_tokens).raised
        THEN int(max_tokens)
        ELSE IF temperature # "" /\ float(temperature).raised
        THEN float(temperature)
        ELSE IF isdigit(timeout) /\ int(timeout).raised
        THEN int(timeout)
        ELSE LET m == [class |-> "ModelConfig",
                       api_type |-> IF api_type \in SUPPORTED_API_TYPES
                                    THEN api_type ELSE "openai",
                       model_name |-> strip(typed.model_name),
                       max_tokens |-> IF isdigit(max_tokens)
                                      THEN int(max_tokens).value ELSE 2000,
                       temperature |-> IF temperature # ""
                                       THEN float(temperature).value
                                       ELSE <<7, 10>>,
                       timeout |-> IF isdigit(timeout)
                                   THEN int(timeout).value ELSE 60]
             IN  [raised |-> FALSE,
                  value |-> ConfigManager(Append(mgr.models, m),
                                          Len(mgr.models))]

\* lines 129-140 for one profile: a field retyped to something not empty
\* is set, api_type and model_name to the text as typed, the numbers to
\* what int and float make of it; a conversion that raises is caught
\* (line 139) and leaves the field as it was
EditedProfile(m, typed) ==
    LET api_type == strip(typed.api_type)
        model_name == strip(typed.model_name)
        max_tokens == strip(typed.max_tokens)
        temperature == strip(typed.temperature)
        timeout == strip(typed.timeout)
    IN  [class |-> "ModelConfig",
         api_type |-> IF api_type # "" THEN api_type ELSE m.api_type,
         model_name |-> IF model_name # "" THEN model_name ELSE m.model_name,
         max_tokens |-> IF max_tokens # "" /\ ~int(max_tokens).raised
                        THEN int(max_tokens).value ELSE m.max_tokens,
         temperature |-> IF temperature # "" /\ ~float(temperature).raised
                         THEN float(temperature).value ELSE m.temperature,
         timeout |-> IF timeout # "" /\ ~int(timeout).raised
                     THEN int(timeout).value ELSE m.timeout]

\* edit_model(idx), lines 126-142: the profile is looked up (line 127,
\* IndexError) and edited in place
edit_model(mgr, idx, typed) ==
    LET k == PyPosition(mgr.models, idx)
    IN  IF k = 0 THEN [raised |-> TRUE, error |-> "IndexError"]
        ELSE [raised |-> FALSE,
              value |-> [mgr EXCEPT
                           !.models[k] = EditedProfile(mgr.models[k], typed)]]

\* model_cfg of main.py before its first assignment (lines 51, 56)
NoModelCfg == [class |-> "unbound"]

\* a stand-alone driver (model_token_rate_test.main, quick_start.run_test,
\* test_tool.py) over a TestConfig
InitSweep ==
    /\ pc = "loop"
    /\ config = TestConfig
    /\ server = "common answers"
    /\ config_mgr = NoConfigManager
    /\ concurrency_levels \in LevelLists

\* one probe against an endpoint that can give every class of answer, by a
\* tester over a TestConfig or over a profile of any api_type
InitProbe ==
    /\ pc = "loop"
    /\ config \in {TestConfig} \cup ModelConfigs
    /\ config_mgr = NoConfigManager
    /\ server = "any answer"
    /\ concurrency_levels = <<1>>

\* main.py at its menu (line 46), the ConfigManager loaded (line 44)
InitMain ==
    /\ pc = "menu"
    /\ config = NoModelCfg
    /\ \E file \in ConfigFiles : config_mgr = load(file)
    /\ server = "common answers"
    /\ concurrency_levels = <<>>

\* the lists of values folded: every list of one or two values, and the
\* list of test_tool.py
MockLists ==
    {<<m>> : m \in MockResponses}
        \cup {<<m, n>> : m \in MockResponses, n \in MockResponses}
        \cup {mock_responses}

\* test_tool.py test_error_handling (lines 137-146): a tester over a
\* TestConfig and a list of values to fold, nothing probed
InitErrorHandling ==
    /\ pc = "test_error_handling"
    /\ config = TestConfig
    /\ server = "common answers"
    /\ config_mgr = NoConfigManager
    /\ concurrency_levels = <<>>
    /\ responses \in MockLists

Init ==
    /\ \/ (InitSweep \/ InitProbe \/ InitMain) /\ responses = <<>>
       \/ InitErrorHandling
    /\ model_cfg_idx = 0
    /\ preflight = NoPreflight
    /\ li = 0
    /\ tasks = <<>>
    /\ requests = <<>>
    /\ wire = <<>>
    /\ results = <<>>
    /\ report = NoReport

\* lines 133-145: the tasks are created and gather awaits them.  The clock
\* read of line 144 is drawn in LevelCompletes, where it is used: a
\* time.time() read is an input here, and no other step depends on it
Launch ==
    /\ pc = "loop"
    /\ HasNextLevel(concurrency_levels, li, results)
    /\ LET concurrency == concurrency_levels[li + 1]
       IN  /\ responses' = [i \in 1..concurrency |-> Pending]
           /\ wire' = [i \in 1..concurrency |-> Pending]
           /\ tasks' = [i \in 1..concurrency |-> Created]
           /\ requests' = BuildRequests(config, concurrency)
    /\ li' = li + 1
    /\ pc' = "gather"
    /\ UNCHANGED <<config, config_mgr, model_cfg_idx, server, preflight,
                   concurrency_levels,
                   results, report>>

\* the coroutine of task i ends: the answer and the returned dict are
\* recorded, gather has the value of the task
Return(i, w, end_time) ==
    /\ wire' = [wire EXCEPT ![i] = w]
    /\ responses' = GatherCollect(responses, i,
                        call_model_api(w, tasks[i].start_time, end_time))
    /\ tasks' = [tasks EXCEPT ![i] = Returned]

\* lines 80-95: task i starts call_model_api, reads the clock (line 93)
\* and is suspended in session.post
Post(i) ==
    /\ pc = "gather"
    /\ i \in 1..Len(tasks)
    /\ tasks[i] = Created
    /\ \E start_time \in TimeValues :
         tasks' = [tasks EXCEPT
                     ![i] = [at |-> "line 95", start_time |-> start_time]]
    /\ UNCHANGED <<config, config_mgr, model_cfg_idx, server, preflight,
                   concurrency_levels,
                   pc, li, requests, wire, responses, results, report>>

\* task i resumes at line 95: session.post raised, the clock is read at
\* line 124 and the failure dict returned; or the status line and the
\* headers are there, and the task is suspended in response.text()
\* (line 101)
PostResumes(i) ==
    /\ pc = "gather"
    /\ i \in 1..Len(tasks)
    /\ tasks[i].at = "line 95"
    /\ \/ \E w \in Answers(server), end_time \in TimeValues :
            /\ w.kind \in RaisedAtPost
            /\ Return(i, w, end_time)
       \/ \E status \in Statuses(server) :
            /\ tasks' = [tasks EXCEPT
                           ![i] = [at |-> "line 101",
                                   start_time |-> tasks[i].start_time,
                                   status |-> status]]
            /\ UNCHANGED <<wire, responses>>
    /\ UNCHANGED <<config, config_mgr, model_cfg_idx, server, preflight,
                   concurrency_levels,
                   pc, li, requests, results, report>>

\* task i resumes at line 101: response.text() raised, or the body is
\* there; the clock is read (line 102, or line 124) and lines 104-129
\* return the dict
TextResumes(i) ==
    /\ pc = "gather"
    /\ i \in 1..Len(tasks)
    /\ tasks[i].at = "line 101"
    /\ \E w \in Answers(server), end_time \in TimeValues :
         /\ \/ w.kind \in RaisedAtText
            \/ w.kind = "http" /\ w.status = tasks[i].status
         /\ Return(i, w, end_time)
    /\ UNCHANGED <<config, config_mgr, model_cfg_idx, server, preflight,
                   concurrency_levels,
                   pc, li, requests, results, report>>

\* the counts test_error_handling prints (test_tool.py line 170); a token
\* count of None raises TypeError at the addition (line 160), which
\* test_tool.main catches
PrintedCounts(acc) ==
    IF acc.raised THEN [status |-> "TypeError"]
    ELSE [status |-> "counts",
          success_count |-> acc.success_count,
          error_count |-> acc.error_count,
          total_tokens |-> acc.total_tokens,
          response_times |-> acc.response_times]

\* test_tool.py lines 148-170: the loop of lines 154-173 over a list of
\* values, outside a sweep
TestErrorHandling ==
    /\ pc = "test_error_handling"
    /\ report' = PrintedCounts(AnalyzeResponses(responses))
    /\ pc' = "tested"
    /\ UNCHANGED <<config, config_mgr, model_cfg_idx, server, preflight,
                   concurrency_levels,
                   li, tasks, requests, wire, responses, results>>

\* rs keeping one result per concurrency: r takes the place of the result
\* of the same concurrency, if there is one
PutByConcurrency(rs, r) ==
    LET same == {k \in 1..Len(rs) : rs[k].concurrency = r.concurrency}
    IN  IF same = {} THEN Append(rs, r)
        ELSE [rs EXCEPT ![CHOOSE k \in same : TRUE] = r]

\* test_concurrency keeping one result per concurrency level instead of
\* appending
LevelCompletes_OnePerLevel ==
    /\ pc = "gather"
    /\ AllSettled(responses)
    /\ LET acc == AnalyzeResponses(responses)
       IN  /\ ~acc.raised
           /\ \E start_time \in TimeValues, end_time \in TimeValues :
                results' = PutByConcurrency(results,
                    TestResult(Len(responses), acc, end_time - start_time))
    /\ tasks' = <<>>
    /\ requests' = <<>>
    /\ wire' = <<>>
    /\ pc' = "sleep"
    /\ UNCHANGED <<config, config_mgr, model_cfg_idx, server, preflight,
                   concurrency_levels,
                   li, responses, report>>

\* lines 144-193: gather returns, end_time is read, the responses are
\* folded and the result is appended; run_all_tests goes on to sleep
\* (line 225).  The session of line 135 is closed on the way out; the
\* collected responses are kept until the sleep is over, so that the
\* appended result can be compared with them
LevelCompletes ==
    /\ pc = "gather"
    /\ AllSettled(responses)
    /\ LET acc == AnalyzeResponses(responses)
       IN  /\ ~acc.raised
           /\ \E start_time \in TimeValues, end_time \in TimeValues :
                results' = Append(results,
                    TestResult(Len(responses), acc, end_time - start_time))
    /\ tasks' = <<>>
    /\ requests' = <<>>
    /\ wire' = <<>>
    /\ pc' = "sleep"
    /\ UNCHANGED <<config, config_mgr, model_cfg_idx, server, preflight,
                   concurrency_levels,
                   li, responses, report>>

\* lines 146-160 and 226-227: the fold raises TypeError on a token count of
\* None; nothing is appended, run_all_tests logs and goes on to the next
\* level without sleeping
LevelRaises ==
    /\ pc = "gather"
    /\ AllSettled(responses)
    /\ AnalyzeResponses(responses).raised
    /\ tasks' = <<>>
    /\ requests' = <<>>
    /\ wire' = <<>>
    /\ responses' = <<>>
    /\ pc' = "loop"
    /\ UNCHANGED <<config, config_mgr, model_cfg_idx, server, preflight,
                   concurrency_levels,
                   li, results, report>>

\* line 225: await asyncio.sleep(2); the locals of the finished
\* test_concurrency call are gone
Cooldown ==
    /\ pc = "sleep"
    /\ responses' = <<>>
    /\ pc' = "loop"
    /\ UNCHANGED <<config, config_mgr, model_cfg_idx, server, preflight,
                   concurrency_levels,
                   li, tasks, requests, wire, results, report>>

\* line 221: the loop is exhausted, run_all_tests returns
RunAllTestsReturns ==
    /\ pc = "loop"
    /\ ~HasNextLevel(concurrency_levels, li, results)
    /\ pc' = "returned"
    /\ UNCHANGED <<config, config_mgr, model_cfg_idx, server, preflight,
                   concurrency_levels,
                   li, tasks, requests, wire, responses, results, report>>

\* rs with r put before the first result of a lower rate
RECURSIVE InsertByRate(_, _)
InsertByRate(r, rs) ==
    IF rs = <<>> THEN <<r>>
    ELSE IF RatLess(Head(rs).tokens_per_second, r.tokens_per_second)
    THEN <<r>> \o rs
    ELSE <<Head(rs)>> \o InsertByRate(r, Tail(rs))

\* rs sorted by falling rate, as self.results.sort(key=..., reverse=True)
RECURSIVE SortByRate(_)
SortByRate(rs) ==
    IF rs = <<>> THEN <<>>
    ELSE InsertByRate(rs[Len(rs)], SortByRate(SubSeq(rs, 1, Len(rs) - 1)))

\* generate_report finding the best level by sorting self.results in place
GenerateReport_SortsResults ==
    /\ pc \in {"returned", "done"}
    /\ report' = generate_text_report(results)
    /\ results' = SortByRate(results)
    /\ pc' = IF pc = "returned" THEN "done" ELSE "done_again"
    /\ UNCHANGED <<config, config_mgr, model_cfg_idx, server, preflight,
                   concurrency_levels,
                   li, tasks, requests, wire, responses>>

\* generate_report (lines 229-246) calling generate_text_report; a caller
\* may ask for the report again (pc = "done")
GenerateReport ==
    /\ pc \in {"returned", "done"}
    /\ report' = generate_text_report(results)
    /\ pc' = IF pc = "returned" THEN "done" ELSE "done_again"
    /\ UNCHANGED <<config, config_mgr, model_cfg_idx, server, preflight,
                   concurrency_levels,
                   li, tasks, requests, wire, responses, results>>

(***************************************************************************)
(* main.py: the menu loop of main (lines 42-93).                           *)
(***************************************************************************)
\* an exception nothing catches ends main.py
Crashed(error) == "crashed: " \o error

\* line 48-49, op '1': the configuration menu opens; this pass of the loop
\* of main has run no self check yet
ManageConfig ==
    /\ pc = "menu"
    /\ pc' = "config menu"
    /\ preflight' = NoPreflight
    /\ UNCHANGED <<config, config_mgr, model_cfg_idx, server,
                   concurrency_levels, li, tasks, requests, wire, responses,
                   results, report>>

\* what the model types into add_model: a supported type, one in
\* capitals and one that is not supported, the numbers left empty or not
\* all digits; every field typed; a number that int or float rejects
AddInputs ==
    {Typed(t, "gpt-3.5-turbo", "", "", "") : t \in {"openai", "VLLM"}}
        \cup {Typed("abc", "gpt-3.5-turbo", "-1", "", "abc"),
              Typed("vllm", "", "3", "1", "4"),
              Typed("", "", "<U+00B2>", "", ""),
              Typed("", "", "", "abc", ""),
              Typed("", "", "", "", "<U+00B2>")}

\* config.py lines 69-70, op 'a': add_model; the ValueError of a
\* conversion is caught nowhere and ends the program
AddModel ==
    /\ pc = "config menu"
    /\ Len(config_mgr.models) < MaxModels
    /\ \E typed \in AddInputs :
         LET added == add_model(config_mgr, typed)
         IN  IF added.raised
             THEN /\ pc' = Crashed(added.error)
                  /\ UNCHANGED config_mgr
             ELSE /\ config_mgr' = added.value
                  /\ UNCHANGED pc
    /\ UNCHANGED <<config, model_cfg_idx, server, preflight,
                   concurrency_levels,
                   li, tasks, requests, wire, responses, results, report>>

\* what the model types into edit_model: every field retyped, the type in
\* capitals; or numbers that int and float reject and the rest left empty
EditInputs ==
    {Typed("VLLM", "other", "3", "1", "4"),
     Typed("", "", "abc", "abc", "<U+00B2>")}

\* config.py lines 71-72, op 'e': edit_model(self.active_index); the
\* IndexError of the lookup ends the program.  The profile is edited in
\* place: when it is the object model_cfg of main.py is bound to,
\* model_cfg shows the edit
EditModel ==
    /\ pc = "config menu"
    /\ \E typed \in EditInputs :
         LET edited == edit_model(config_mgr, config_mgr.active_index, typed)
             k == PyPosition(config_mgr.models, config_mgr.active_index)
         IN  IF edited.raised
             THEN /\ pc' = Crashed(edited.error)
                  /\ UNCHANGED <<config_mgr, config>>
             ELSE /\ config_mgr' = edited.value
                  /\ config' = IF model_cfg_idx = k
                               THEN edited.value.models[k] ELSE config
                  /\ UNCHANGED pc
    /\ UNCHANGED <<model_cfg_idx, server, preflight, concurrency_levels,
                   li, tasks, requests, wire, responses, results, report>>

\* the test of lines 75 and 85 on the typed index: "no" when it is not all
\* digits or out of range, ValueError when int rejects the digits
IndexTyped(typed, models) ==
    LET idx == strip(typed)
    IN  IF ~isdigit(idx) THEN [raised |-> FALSE, valid |-> FALSE]
        ELSE IF int(idx).raised THEN int(idx)
        ELSE IF 0 <= int(idx).value /\ int(idx).value < Len(models)
             THEN [raised |-> FALSE, valid |-> TRUE, value |-> int(idx).value]
             ELSE [raised |-> FALSE, valid |-> FALSE]

\* config.py lines 73-79, op 's': switch the active profile
SwitchModel ==
    /\ pc = "config menu"
    /\ \E typed \in TypedTexts :
         LET idx == IndexTyped(typed, config_mgr.models)
         IN  IF idx.raised
             THEN /\ pc' = Crashed(idx.error)
                  /\ UNCHANGED config_mgr
             ELSE /\ config_mgr' =
                        IF idx.valid
                        THEN [config_mgr EXCEPT !.active_index = idx.value]
                        ELSE config_mgr
                  /\ UNCHANGED pc
    /\ UNCHANGED <<config, model_cfg_idx, server, preflight,
                   concurrency_levels, li, tasks, requests, wire, responses,
                   results, report>>

\* where the object at position at is after del models[i] (i counted from
\* 0): nowhere when it was the one deleted
AfterDel(at, i) ==
    IF at = i + 1 THEN 0 ELSE IF at > i + 1 THEN at - 1 ELSE at

\* config.py lines 80-90, op 'd': delete a profile, unless it is the only
\* one; the first profile becomes the active one.  model_cfg of main.py
\* stays bound to the object it had
DeleteModel ==
    /\ pc = "config menu"
    /\ IF Len(config_mgr.models) <= 1
       THEN UNCHANGED <<config_mgr, model_cfg_idx, pc>>
       ELSE \E typed \in TypedTexts :
              LET idx == IndexTyped(typed, config_mgr.models)
              IN  IF idx.raised
                  THEN /\ pc' = Crashed(idx.error)
                       /\ UNCHANGED <<config_mgr, model_cfg_idx>>
                  ELSE IF idx.valid
                  THEN /\ config_mgr' = ConfigManager(
                                      PyDel(config_mgr.models, idx.value), 0)
                       /\ model_cfg_idx' = AfterDel(model_cfg_idx, idx.value)
                       /\ UNCHANGED pc
                  ELSE UNCHANGED <<config_mgr, model_cfg_idx, pc>>
    /\ UNCHANGED <<config, server, preflight, concurrency_levels,
                   li, tasks, requests, wire, responses, results, report>>

\* config.py lines 91-94, op 'q', and main.py lines 51-54: the manager is
\* saved (the file is not read again), the active profile is looked up
\* and self-checked, and either way the menu of main.py comes back
QuitConfigMenu ==
    /\ pc = "config menu"
    /\ LET model_cfg == PyIndex(config_mgr.models, config_mgr.active_index)
       IN  IF model_cfg.raised
           THEN /\ pc' = Crashed(model_cfg.error)
                /\ UNCHANGED <<config, model_cfg_idx, preflight>>
           ELSE /\ config' = model_cfg.value
                /\ model_cfg_idx' = PyPosition(config_mgr.models,
                                               config_mgr.active_index)
                /\ \E in \in SelfCheckInputs :
                     preflight' = PreflightOf(model_cfg.value, in)
                /\ pc' = "menu"
    /\ UNCHANGED <<config_mgr, server, concurrency_levels, li,
                   tasks, requests, wire, responses, results, report>>

\* lines 55-62, op '2': the active profile is looked up (line 56); step 1,
\* its self check; when that fails the loop continues at the menu
StartTest ==
    /\ pc = "menu"
    /\ LET model_cfg == PyIndex(config_mgr.models, config_mgr.active_index)
       IN  IF model_cfg.raised
           THEN /\ pc' = Crashed(model_cfg.error)
                /\ UNCHANGED <<config, model_cfg_idx, preflight>>
           ELSE /\ config' = model_cfg.value
                /\ model_cfg_idx' = PyPosition(config_mgr.models,
                                               config_mgr.active_index)
                /\ \E in \in SelfCheckInputs :
                     /\ preflight' = PreflightOf(model_cfg.value, in)
                     /\ pc' = IF preflight'.passed THEN "step2" ELSE "menu"
    /\ UNCHANGED <<config_mgr, server, concurrency_levels, li,
                   tasks, requests, wire, responses, results, report>>

\* line 64
default_levels == <<1, 2, 4, 8, 10>>

\* the texts typed between the commas of the answer to the prompt of line
\* 65, split(',') done: one or two parts
LevelTexts == {"", " ", "0", "1", " 1", "2", "abc", "-1", "<U+00B2>"}

LevelInputs ==
    {<<a>> : a \in LevelTexts} \cup {<<a, b>> : a, b \in LevelTexts}

\* the parts x of line 68 that pass x.strip().isdigit()
DigitParts(parts) == SelectSeq(parts, LAMBDA x : isdigit(strip(x)))

\* lines 65-73: the answer stripped to nothing gives the default list;
\* otherwise the parts that are not all digits are dropped and the others
\* converted, and the default list is used when a conversion raises
ParseLevels(parts) ==
    IF Len(parts) = 1 /\ strip(parts[1]) = ""
    THEN default_levels
    ELSE LET kept == DigitParts(parts)
         IN  IF \E k \in 1..Len(kept) : int(kept[k]).raised
             THEN default_levels
             ELSE [k \in 1..Len(kept) |-> int(kept[k]).value]

\* lines 63-73, step 2: the list of levels is read
InputLevels ==
    /\ pc = "step2"
    /\ \E parts \in LevelInputs : concurrency_levels' = ParseLevels(parts)
    /\ pc' = "step3"
    /\ UNCHANGED <<config, config_mgr, model_cfg_idx, server, preflight, li,
                   tasks, requests, wire, responses, results, report>>

\* lines 74-88, step 3: the tester is built, TokenRateTester(model_cfg,
\* output_dir=OUTPUT_DIR, logger=logger); the TypeError of the call is
\* caught at line 86 and the menu comes back (the list of levels is
\* assigned anew before it is read again)
BuildTester ==
    /\ pc = "step3"
    /\ pc' = IF TokenRateTesterInit(1, {"output_dir", "logger"}) = "TypeError"
             THEN "menu" ELSE "levels"
    /\ concurrency_levels' = <<>>
    /\ UNCHANGED <<config, config_mgr, model_cfg_idx, server, preflight, li,
                   tasks, requests, wire, responses, results, report>>

\* lines 89-91, op '3'
Exit ==
    /\ pc = "menu"
    /\ pc' = "exited"
    /\ UNCHANGED <<config, config_mgr, model_cfg_idx, server, preflight,
                   concurrency_levels,
                   li, tasks, requests, wire, responses, results, report>>

Next ==
    \/ Launch
    \/ \E i \in 1..MaxConcurrency : Post(i)
    \/ \E i \in 1..MaxConcurrency : PostResumes(i)
    \/ \E i \in 1..MaxConcurrency : TextResumes(i)
    \/ TestErrorHandling
    \/ LevelCompletes
    \/ LevelRaises
    \/ Cooldown
    \/ RunAllTestsReturns
    \/ GenerateReport
    \/ ManageConfig
    \/ AddModel
    \/ EditModel
    \/ SwitchModel
    \/ DeleteModel
    \/ QuitConfigMenu
    \/ StartTest
    \/ InputLevels
    \/ BuildTester
    \/ Exit

Spec == Init /\ [][Next]_vars

(***************************************************************************)
(* Properties.                                                             *)
(***************************************************************************)
LastResult == results[Len(results)]

\* a collected value that line 158 classifies as a success
IsSuccessDict(r) ==
    r.type = "dict" /\ "success" \in DOMAIN r /\ r.success = TRUE

\* the positions of the collected values classified as successes
SuccessPositions == {i \in 1..Len(responses) : IsSuccessDict(responses[i])}

RECURSIVE SumAt(_, _)
SumAt(f, S) ==
    IF S = {} THEN 0
    ELSE LET x == CHOOSE y \in S : TRUE IN f[x] + SumAt(f, S \ {x})

\* C1: every level result counts each of the N probes of its level exactly
\* once: success_count + error_count = N, whatever the probes returned
C1_EveryProbeCounted ==
    /\ \A k \in 1..Len(results) :
         results[k].success_count + results[k].error_count
             = results[k].concurrency
    /\ pc = "sleep" =>
         /\ LastResult.concurrency = concurrency_levels[li]
         /\ LastResult.success_count = Cardinality(SuccessPositions)
         /\ LastResult.error_count
              = Len(responses) - Cardinality(SuccessPositions)
    /\ (pc = "tested" /\ report.status = "counts") =>
         /\ report.success_count = Cardinality(SuccessPositions)
         /\ report.error_count
              = Len(responses) - Cardinality(SuccessPositions)

\* the list of test_error_handling has been folded: an exception object, a
\* failure dict, a success dict and a value of an unexpected type give one
\* success and three failures
C1_Witness ==
    /\ pc = "tested"
    /\ Len(responses) = 4
    /\ responses[1].type = "exception"
    /\ responses[4].type = "other"
    /\ report.success_count = 1
    /\ report.error_count = 3

\* a level result whose probes (at least one) all failed
AllFailed(r) == r.success_count = 0 /\ r.error_count > 0

\* C2 as claimed: once a level has ended with all of its probes failed, the
\* sweep stops: no probe of a later level is issued
C2_SweepStopsAfterAllFailed ==
    \A k \in 1..Len(results) :
        AllFailed(results[k]) => ~(pc = "gather" /\ Len(responses) > 0)

\* C2 as the code has it: a level whose probes all failed yields an ordinary
\* result (no successes, N errors, no tokens, rate 0) and no signal; the
\* sweep goes on, and run_all_tests returns only when every level of the
\* list has been entered
C2_SweepGoesOnAfterAllFailed ==
    /\ \A k \in 1..Len(results) :
         AllFailed(results[k]) =>
            /\ results[k].error_count = results[k].concurrency
            /\ results[k].total_tokens = 0
            /\ results[k].tokens_per_second = Zero
    /\ pc \in {"returned", "done"} => li = Len(concurrency_levels)

\* a level of two probes was run, and succeeded, after a level whose
\* only probe failed
C2_Witness ==
    /\ pc = "done"
    /\ Len(results) = 2
    /\ AllFailed(results[1])
    /\ results[2].concurrency = 2
    /\ results[2].success_count = 2

\* C3: the level result is computed only once every probe of the level has
\* settled; while the probes run, in whatever order their tasks are
\* resumed, a step moves one task and leaves every sibling as it was (a
\* settled sibling keeps its outcome, a suspended one stays where it is
\* suspended, with the start time it read), and a probe's outcome is the
\* one call_model_api gives for that probe's own answer from the transport
C3_AllSettleIndependently ==
    [][ /\ (pc = "gather" /\ (pc' # "gather" \/ results' # results)) =>
              \A i \in 1..Len(responses) : responses[i].type # "pending"
        /\ (pc = "gather" /\ pc' = "gather") =>
              /\ Len(responses') = Len(responses)
              /\ Len(tasks') = Len(tasks)
              /\ \A i \in 1..Len(responses) :
                    responses[i].type # "pending" =>
                        /\ responses'[i] = responses[i]
                        /\ wire'[i] = wire[i]
                        /\ tasks'[i] = tasks[i]
              /\ Cardinality({i \in 1..Len(tasks) :
                                tasks'[i] # tasks[i]}) <= 1
              /\ \A i \in 1..Len(responses) :
                    responses'[i] # responses[i] => tasks'[i] # tasks[i]
        /\ pc' = "gather" =>
              \A i \in 1..Len(responses') :
                    responses'[i].type # "pending" =>
                        \E s \in TimeValues, e \in TimeValues :
                            responses'[i] = call_model_api(wire'[i], s, e)
      ]_vars

\* two probes in flight: the second got its status line and waits for the
\* body while the first has failed on the connection
C3_Witness ==
    /\ pc = "gather"
    /\ Len(responses) = 2
    /\ tasks[1] = Returned
    /\ wire[1].kind = "conn_error"
    /\ responses[1].success = FALSE
    /\ tasks[2].at = "line 101"
    /\ tasks[2].status = 200
    /\ responses[2] = Pending

\* the answers of the transport that are errors for call_model_api
WireIsError(w) ==
    \/ w.kind \in {"conn_error", "timeout", "decode_error"}
    \/ w.kind = "http" /\ w.status # 200
    \/ w.kind = "http" /\ w.status = 200
          /\ w.body \in {"not_json", "no_choices", "empty_choices",
                         "not_subscriptable"}

\* C4: call_model_api never raises: whatever the transport answered, the
\* task ends with a dict holding an elapsed time, and for a connection
\* error, a timeout, a status other than 200, invalid JSON or missing
\* fields that dict has success = False and an error text
C4_ProbeNeverRaises ==
    pc = "gather" =>
        \A i \in 1..Len(responses) :
            responses[i] # Pending =>
                /\ responses[i].type = "dict"
                /\ "success" \in DOMAIN responses[i]
                /\ "response_time" \in DOMAIN responses[i]
                /\ \E s \in TimeValues, e \in TimeValues :
                        responses[i].response_time = e - s
                /\ WireIsError(wire[i]) =>
                        /\ responses[i].success = FALSE
                        /\ "error" \in DOMAIN responses[i]

\* a probe whose 200 response lacked the fields read at line 106 has
\* settled with a failure dict, next to one that met a connection error
C4_Witness ==
    /\ pc = "gather"
    /\ Len(responses) = 2
    /\ wire[1] = [kind |-> "http", status |-> 200, body |-> "no_choices"]
    /\ responses[1].type = "dict"
    /\ responses[1].success = FALSE
    /\ wire[2] = [kind |-> "conn_error"]
    /\ responses[2].type = "dict"
    /\ responses[2].success = FALSE

\* the token count line 160 reads from a success dict
TokensOf == [i \in 1..Len(responses) |->
                IF IsSuccessDict(responses[i]) /\ "tokens" \in DOMAIN responses[i]
                THEN responses[i].tokens.v ELSE 0]

\* the elapsed time line 161 reads from a success dict
TimeOf == [i \in 1..Len(responses) |->
                IF IsSuccessDict(responses[i])
                   /\ "response_time" \in DOMAIN responses[i]
                THEN responses[i].response_time ELSE 0]

\* C5: the total_tokens of a level result is the sum of the token counts of
\* exactly the collected values classified as successes; failure dicts,
\* exception objects and values of other types add nothing, whatever
\* fields they carry
C5_TokensOfSuccessesOnly ==
    /\ pc = "sleep" =>
         LastResult.total_tokens = SumAt(TokensOf, SuccessPositions)
    /\ (pc = "tested" /\ report.status = "counts") =>
         report.total_tokens = SumAt(TokensOf, SuccessPositions)

\* a list of two values has been folded: a failure dict carrying
\* tokens = 2 and a success dict carrying tokens = 1
C5_Witness ==
    /\ pc = "tested"
    /\ Len(responses) = 2
    /\ responses[1].type = "dict"
    /\ "success" \in DOMAIN responses[1]
    /\ responses[1].success = FALSE
    /\ "tokens" \in DOMAIN responses[1]
    /\ IsSuccessDict(responses[2])
    /\ TokensOf[2] = 1
    /\ report.total_tokens = 1

\* C6: the tokens_per_second of a level result is total_tokens / total_time
\* when the batch time is positive and 0 when it is zero or negative
C6_RateGuarded ==
    \A k \in 1..Len(results) :
        LET r == results[k]
        IN  /\ r.tokens_per_second[2] > 0
            /\ r.total_time > 0 =>
                 r.tokens_per_second[1] * r.total_time
                     = r.total_tokens * r.tokens_per_second[2]
            /\ r.total_time <= 0 => r.tokens_per_second = Zero

\* one level ended with tokens and a negative batch time, hence rate 0; the
\* next ended with two tokens in one tick, hence rate 2
C6_Witness ==
    /\ Len(results) = 2
    /\ results[1].total_tokens > 0
    /\ results[1].total_time < 0
    /\ results[1].tokens_per_second = Zero
    /\ results[2].total_tokens = 2
    /\ results[2].total_time = 1
    /\ results[2].tokens_per_second = <<2, 1>>

\* C7: avg / min / max response time of a level result are taken over the
\* elapsed times of the successes only: min and max are the least and the
\* greatest of them, avg is their sum over their number, min <= avg <= max;
\* all three are 0 when the level has no success
C7_LatencyOfSuccessesOnly ==
    pc = "sleep" =>
        LET r == LastResult
            S == SuccessPositions
            n == Cardinality(S)
        IN  /\ n = 0 =>
                 /\ r.avg_response_time = Zero
                 /\ r.min_response_time = 0
                 /\ r.max_response_time = 0
            /\ n > 0 =>
                 /\ \E i \in S : TimeOf[i] = r.min_response_time
                 /\ \A i \in S : r.min_response_time <= TimeOf[i]
                 /\ \E i \in S : TimeOf[i] = r.max_response_time
                 /\ \A i \in S : TimeOf[i] <= r.max_response_time
                 /\ r.avg_response_time[2] > 0
                 /\ r.avg_response_time[1] * n
                        = SumAt(TimeOf, S) * r.avg_response_time[2]
                 /\ r.min_response_time * r.avg_response_time[2]
                        <= r.avg_response_time[1]
                 /\ r.avg_response_time[1]
                        <= r.max_response_time * r.avg_response_time[2]

\* after a level whose two successes took 0 and 1 ticks (min 0, avg 1/2,
\* max 1), a level whose only probe failed after 1 tick has been folded:
\* its avg, min and max are 0
C7_Witness ==
    /\ pc = "sleep"
    /\ Len(results) = 2
    /\ results[1].min_response_time = 0
    /\ results[1].avg_response_time = <<1, 2>>
    /\ results[1].max_response_time = 1
    /\ Len(responses) = 1
    /\ ~IsSuccessDict(responses[1])
    /\ responses[1].response_time = 1
    /\ results[2].max_response_time = 0
    /\ results[2].avg_response_time = Zero

\* the report was generated without raising
Reported == pc = "done" /\ report.status = "ok"

\* C8: the success rate reported for a level is
\* success_count / (success_count + error_count) * 100, and 0 when
\* success_count + error_count is 0; it lies between 0 and 100
C8_SuccessRate ==
    Reported =>
        \A k \in 1..Len(results) :
            LET sr == report.rows[k].success_rate
                total == results[k].success_count + results[k].error_count
            IN  /\ sr[2] > 0
                /\ total > 0 =>
                     sr[1] * total = results[k].success_count * 100 * sr[2]
                /\ total = 0 => sr = Zero
                /\ 0 <= sr[1] /\ sr[1] <= 100 * sr[2]

\* a report over a level of two probes, one of them successful (50%), and a
\* level of no probes (0)
C8_Witness ==
    /\ Reported
    /\ Len(results) = 2
    /\ results[1].success_count = 1
    /\ results[1].error_count = 1
    /\ report.rows[1].success_rate = <<50, 1>>
    /\ results[2].success_count + results[2].error_count = 0
    /\ report.rows[2].success_rate = Zero

\* the positions of the results whose tokens_per_second is maximal
MaxRatePositions ==
    {k \in 1..Len(results) :
        \A j \in 1..Len(results) :
            ~RatLess(results[k].tokens_per_second, results[j].tokens_per_second)}

\* C9 as claimed: the reported best level has the maximal tokens_per_second,
\* and among the levels that tie for it the reported one has the lowest
\* concurrency, in whatever order the levels were run (stated for the
\* sweeps whose levels all have at least one probe)
C9_BestIsLowestConcurrencyOfTies ==
    (Reported /\ \A k \in 1..Len(results) : results[k].concurrency > 0) =>
        /\ report.best_index \in MaxRatePositions
        /\ \A k \in MaxRatePositions :
              report.best_concurrency <= results[k].concurrency

\* C9 as the code has it: the reported best level has the maximal
\* tokens_per_second, and among the results that tie for it the reported
\* one is the first of the list
C9_BestIsFirstOfTies ==
    Reported =>
        /\ report.best_index \in MaxRatePositions
        /\ \A k \in MaxRatePositions : report.best_index <= k
        /\ report.best_concurrency = results[report.best_index].concurrency
        /\ report.best_tokens_per_second
              = results[report.best_index].tokens_per_second

\* a report over level 2 then level 1, both with the same positive rate:
\* the report names level 2, the first of the two
C9_Witness ==
    /\ Reported
    /\ Len(results) = 2
    /\ results[1].concurrency = 2
    /\ results[2].concurrency = 1
    /\ RatLess(Zero, results[1].tokens_per_second)
    /\ results[1].tokens_per_second = results[2].tokens_per_second
    /\ report.best_concurrency = 2

\* C10: the scaling efficiency reported for a result after the first is
\* rate(L) / rate(baseline) * 100 when the rate of the first result is
\* positive, however large, and 0 when that rate is 0
C10_Efficiency ==
    Reported =>
        /\ Len(report.scalability) = Len(results) - 1
        /\ \A k \in 2..Len(results) :
              LET e == report.scalability[k - 1].efficiency
                  base == results[1].tokens_per_second
                  rate == results[k].tokens_per_second
              IN  /\ report.scalability[k - 1].concurrency = results[k].concurrency
                  /\ e[2] > 0
                  /\ RatLess(Zero, base) =>
                        e[1] * base[1] * rate[2] = rate[1] * base[2] * 100 * e[2]
                  /\ ~RatLess(Zero, base) => e = Zero

\* a report whose baseline ran at 1 token per tick and whose second level
\* ran at 2: the efficiency reported for it is 200
C10_Witness ==
    /\ Reported
    /\ Len(results) = 2
    /\ results[1].tokens_per_second = <<1, 1>>
    /\ results[2].tokens_per_second = <<2, 1>>
    /\ report.scalability[1].efficiency = <<200, 1>>

\* every level of the sweep holds at least one probe
AllLevelsProbe ==
    /\ Len(concurrency_levels) > 0
    /\ \A k \in 1..Len(concurrency_levels) : concurrency_levels[k] > 0

\* C11: when the sweep driver computes the summary (generate_report after
\* run_all_tests has gone through a non-empty list of levels with at least
\* one probe each), the results list is not empty
C11_ReportOverNonEmptyResults ==
    (pc = "done" /\ AllLevelsProbe) => results # <<>>

\* a level with at least one probe is left to run
ProbingLevelLeft ==
    /\ li < Len(concurrency_levels)
    /\ concurrency_levels[li + 1] > 0

\* C12: the levels of a sweep run strictly one after another: a level is
\* left only when every probe of it has settled, and the head of the loop,
\* where the probes of the next level are issued, is reached from a level
\* only through the cooldown that follows it
C12_LevelsSequentialWithCooldown ==
    [][/\ (pc = "gather" /\ pc' # "gather") => AllSettled(responses)
       /\ (pc # "loop" /\ pc' = "loop" /\ ProbingLevelLeft') => pc = "sleep"
      ]_vars

\* a probe of the level in flight has posted, or is about to post, a request
ProbeIssued ==
    pc = "gather" /\ requests # <<>>

\* the streamed answer held at least one non-empty token piece
HasToken(stream) ==
    stream.kind = "chunks"
        /\ \E k \in 1..Len(stream.pieces) : stream.pieces[k] # ""

\* C13 as claimed: a sweep starts only after preflight has reported success
\* for the active profile: a benchmark probe is issued only when a self
\* check has run and passed
C13_ProbesOnlyAfterPreflight ==
    ProbeIssued => (preflight.ran /\ preflight.passed)

\* C13 as the code has it: in main.py the test flow gets past its step 1,
\* to the prompt for the levels and to the sweep step, only when the self
\* check of the active profile has just passed, which takes a streamed
\* answer with a non-empty token piece; after a self check that failed the
\* menu is back and no probe is issued.  (The stand-alone drivers run no
\* self check.)
C13_PreflightGatesTestFlow ==
    /\ pc \in {"step2", "step3"} =>
          /\ preflight.ran /\ preflight.passed
          /\ preflight.config = config
    /\ (preflight.ran /\ preflight.passed) =>
          /\ preflight.outcome = "returned"
          /\ HasToken(preflight.stream)
    /\ (preflight.ran /\ ~preflight.passed) =>
          /\ pc \notin {"step2", "step3"}
          /\ ~ProbeIssued

\* the streaming check of the active profile saw two chunks without a
\* token, the self check failed and the menu is back
C13_Witness ==
    /\ pc = "menu"
    /\ preflight.ran
    /\ preflight.config = config
    /\ preflight.outcome = "exit: stream"
    /\ preflight.stream = [kind |-> "chunks", pieces |-> <<"", "">>]
    /\ ~preflight.passed
    /\ ~ProbeIssued

\* the probes of the level in flight that have settled with a failure dict
\* of call_model_api
FailedProbes ==
    IF pc = "gather"
    THEN {i \in 1..Len(responses) :
            responses[i] # Pending /\ ~responses[i].success}
    ELSE {}

\* the kinds of the error taxonomy; an http-error also names the status
ErrorKinds ==
    {"transport-error", "timeout", "http-error", "decode-error",
     "malformed-response", "corrupted-content", "no-output",
     "unsupported-flavor"}

\* C14 as claimed: every failure a probe returns carries a reason of the
\* closed error taxonomy, never the raw message of the transport or of an
\* exception (a reason that names the HTTP status is taken for
\* http-error(status))
C14_ReasonFromTaxonomy ==
    \A i \in FailedProbes :
        \/ "status" \in DOMAIN responses[i].error
        \/ /\ "kind" \in DOMAIN responses[i].error
           /\ responses[i].error.kind \in ErrorKinds

\* C14 as the code has it: the reason of a failure is a raw message: for a
\* status other than 200 the text "HTTP {status}: {body}", for everything
\* else str(e) of the exception caught, whatever went wrong
C14_ReasonIsRawMessage ==
    \A i \in FailedProbes :
        IF wire[i].kind = "http" /\ wire[i].status # 200
        THEN responses[i].error =
                [text |-> "HTTP {status}: {response_text}",
                 status |-> wire[i].status, response_text |-> wire[i].body]
        ELSE responses[i].error = [text |-> "str(e)"]

\* a probe that timed out has failed with the message of the exception
C14_Witness ==
    /\ pc = "gather"
    /\ Len(responses) = 1
    /\ wire[1] = [kind |-> "timeout"]
    /\ responses[1].success = FALSE
    /\ responses[1].error = [text |-> "str(e)"]

\* the probes of the level in flight that have settled on an HTTP answer
AnsweredProbes ==
    IF pc = "gather"
    THEN {i \in 1..Len(responses) :
            responses[i] # Pending /\ wire[i].kind = "http"}
    ELSE {}

\* C15 as claimed: an answer with a status outside 2xx, or a 2xx answer
\* without choices[0].message.content, is a Failure, and every 2xx answer
\* that has the required fields is a Success (stated for the answers whose
\* usage, when there is one, is an object)
C15_SuccessIffComplete2xx ==
    \A i \in AnsweredProbes :
        ~(wire[i].body = "ok" /\ wire[i].usage = "not_object") =>
            (responses[i].success
                <=> (wire[i].status \in 200..299 /\ wire[i].body = "ok"))

\* C15 as the code has it: an answer with a status other than 200, a 200
\* answer that is no JSON or lacks choices[0].message.content, and a 200
\* answer whose usage is there but is no object, are Failures; every 200
\* answer with the content field and with usage absent or an object is a
\* Success; an answer that never arrives or cannot be decoded is a Failure
C15_SuccessIffComplete200 ==
    pc = "gather" =>
        \A i \in 1..Len(responses) :
            responses[i] # Pending =>
                /\ responses[i].type = "dict"
                /\ responses[i].success
                     <=> /\ wire[i].kind = "http"
                         /\ wire[i].status = 200
                         /\ wire[i].body = "ok"
                         /\ wire[i].usage # "not_object"

\* a complete body answered under status 201 has been taken for a failure
\* that names the status
C15_Witness ==
    /\ pc = "gather"
    /\ Len(responses) = 1
    /\ responses[1] # Pending
    /\ wire[1].kind = "http"
    /\ wire[1].status = 201
    /\ wire[1].body = "ok"
    /\ responses[1].success = FALSE
    /\ responses[1].error.status = 201

\* the answer is a complete 200 answer whose content holds the replacement
\* character U+FFFD
HasReplacementChar(w) ==
    /\ w.kind = "http"
    /\ w.status = 200
    /\ w.body = "ok"
    /\ w.usage # "not_object"
    /\ w.content = "text<U+FFFD>"

\* the collected successes whose content holds the replacement character
CorruptedSuccesses ==
    {i \in SuccessPositions :
        "content" \in DOMAIN responses[i]
            /\ responses[i].content = "text<U+FFFD>"}

\* C16 as claimed: an answer that parses but whose content holds the
\* replacement character is a Failure with the reason corrupted-content;
\* the level result does not count it as a success and does not add its
\* tokens
C16_ReplacementCharIsFailure ==
    /\ \A i \in AnsweredProbes :
          HasReplacementChar(wire[i]) =>
              /\ ~responses[i].success
              /\ responses[i].error = [kind |-> "corrupted-content"]
    /\ pc = "sleep" =>
          /\ LastResult.success_count
                = Cardinality(SuccessPositions \ CorruptedSuccesses)
          /\ LastResult.total_tokens
                = SumAt(TokensOf, SuccessPositions \ CorruptedSuccesses)

\* C16 as the code has it: the content is not inspected: an answer that
\* parses and whose content holds the replacement character is a Success
\* carrying that content and the reported token count, and the level
\* result counts it and adds its tokens like those of any other success
C16_ReplacementCharIsSuccess ==
    /\ \A i \in AnsweredProbes :
          HasReplacementChar(wire[i]) =>
              /\ responses[i].success
              /\ responses[i].content = wire[i].content
              /\ responses[i].tokens = UsageTokens(wire[i])
    /\ (pc = "sleep" /\ CorruptedSuccesses # {}) =>
          /\ LastResult.success_count = Cardinality(SuccessPositions)
          /\ LastResult.total_tokens = SumAt(TokensOf, SuccessPositions)

\* the one probe of a level was answered 2 tokens of content holding the
\* replacement character: the level result has one success and 2 tokens
C16_Witness ==
    /\ pc = "sleep"
    /\ Len(responses) = 1
    /\ CorruptedSuccesses = {1}
    /\ responses[1].tokens = IntVal(2)
    /\ LastResult.success_count = 1
    /\ LastResult.total_tokens = 2

\* the answer is a 200 answer with the content field and a usage that is
\* absent or an object
IsCompleteAnswer(w) ==
    /\ w.kind = "http"
    /\ w.status = 200
    /\ w.body = "ok"
    /\ w.usage # "not_object"

\* C17: a complete answer that carries no token count (no usage object, or
\* no total_tokens in it) is a Success with the token count 0; when
\* total_tokens is there the Success carries its value (None for null)
C17_TokenCountDefaultsToZero ==
    \A i \in AnsweredProbes :
        IsCompleteAnswer(wire[i]) =>
            /\ responses[i].success
            /\ wire[i].usage = "absent" => responses[i].tokens = IntVal(0)
            /\ wire[i].usage = "count" =>
                  responses[i].tokens = IntVal(wire[i].total_tokens)
            /\ wire[i].usage = "null_count" => responses[i].tokens = NoneVal

\* a probe answered with content and without a token count has settled as
\* a success of 0 tokens
C17_Witness ==
    /\ pc = "gather"
    /\ Len(responses) = 1
    /\ responses[1] # Pending
    /\ IsCompleteAnswer(wire[1])
    /\ wire[1].usage = "absent"
    /\ responses[1].success
    /\ responses[1].tokens = IntVal(0)

\* C18: summarizing is read-only and idempotent: a call of
\* generate_text_report leaves the results list as it was, and a second
\* call right after the first returns the same summary (rows, rates,
\* success rates, best level, efficiencies), or fails the same way
C18_ReportReadOnlyIdempotent ==
    [][(pc \in {"returned", "done"} /\ pc' \in {"done", "done_again"}) =>
          /\ results' = results
          /\ pc = "done" => report' = report
      ]_vars

\* the report has been asked for twice over two results, the second of a
\* higher rate than the first
C18_Witness ==
    /\ pc = "done_again"
    /\ report.status = "ok"
    /\ Len(results) = 2
    /\ RatLess(results[1].tokens_per_second, results[2].tokens_per_second)
    /\ report.best_index = 2
    /\ Len(report.rows) = 2

\* the api_type of the tester's configuration; a TestConfig has none and
\* is a chat profile
FlavorOf(cfg) ==
    IF "api_type" \in DOMAIN cfg THEN cfg.api_type ELSE "openai"

\* the requests of the probes of the level in flight
IssuedRequests ==
    IF pc = "gather"
    THEN 1..Len(requests)
    ELSE {}

\* C19 as claimed: the request depends on the flavor of the profile: for
\* vllm it carries a prompt field and no messages field, for ollama it
\* nests the generation options under an options object, and only the chat
\* flavors send a messages list
C19_RequestByFlavor ==
    \A i \in IssuedRequests :
        /\ FlavorOf(config) = "vllm" =>
              /\ "prompt" \in DOMAIN requests[i]
              /\ "messages" \notin DOMAIN requests[i]
        /\ FlavorOf(config) = "ollama" => "options" \in DOMAIN requests[i]
        /\ "messages" \in DOMAIN requests[i] =>
              FlavorOf(config) \in {"openai", "thirdparty"}

\* C19 as the code has it: the request is the same chat request for every
\* profile: model, one user message under messages, max_tokens,
\* temperature and stream = false at the top level, and neither a prompt
\* nor an options field, whatever the api_type
C19_RequestIsAlwaysChat ==
    \A i \in IssuedRequests :
        /\ DOMAIN requests[i]
              = {"model", "messages", "max_tokens", "temperature", "stream"}
        /\ requests[i].model = config.model_name
        /\ Len(requests[i].messages) = 1
        /\ requests[i].messages[1].role = "user"
        /\ requests[i].max_tokens = config.max_tokens
        /\ requests[i].temperature = config.temperature
        /\ requests[i].stream = FALSE

\* a tester over a vllm profile has issued a probe: its request carries a
\* messages list
C19_Witness ==
    /\ pc = "gather"
    /\ FlavorOf(config) = "vllm"
    /\ Len(requests) = 1
    /\ "messages" \in DOMAIN requests[1]
    /\ "prompt" \notin DOMAIN requests[1]

\* C20: the results list holds one entry per completed test_concurrency
\* call, in the order of completion: a step adds an entry exactly when a
\* call completes, the entry is that level's result and goes to the end,
\* and no step (a later level, a level that raises, the cooldown, the
\* report) modifies, removes or reorders the entries already there
C20_ResultsAppendOnly ==
    [][/\ Len(results') >= Len(results)
       /\ SubSeq(results', 1, Len(results)) = results
       /\ IF pc = "gather" /\ pc' = "sleep"
          THEN /\ Len(results') = Len(results) + 1
               /\ results'[Len(results')].concurrency = concurrency_levels[li]
          ELSE results' = results
      ]_vars

\* two levels have completed, the second on the same concurrency as the
\* first with another outcome, and the report has been generated: both
\* entries are there, in the order of completion
C20_Witness ==
    /\ pc = "done"
    /\ li = 2
    /\ Len(results) = 2
    /\ results[1].concurrency = 1
    /\ results[2].concurrency = 1
    /\ results[1].success_count = 1
    /\ results[2].success_count = 0

(***************************************************************************)
(* main.py: the levels of step 2, the sweep of step 3.                     *)
(***************************************************************************)
\* C21: the list of concurrency levels main.py holds when step 3 starts is
\* a non-empty sequence of positive integers
C21_LevelsNonEmptyPositive ==
    pc = "step3" =>
        /\ concurrency_levels # <<>>
        /\ \A k \in 1..Len(concurrency_levels) : concurrency_levels[k] > 0

\* C22: when 'start test' is chosen and the self check passes, the tester
\* is constructed from the active ModelConfig and the driver goes on to
\* run the entered levels and to the report: step 3 never hands the
\* operator back to the menu with the tester unbuilt
C22_StartTestBuildsTesterAndSweeps ==
    [][(pc = "step3" /\ preflight.passed) => pc' = "levels"]_vars

(***************************************************************************)
(* config.py: the ConfigManager of main.py.                                *)
(***************************************************************************)
\* models is non-empty and active_index is the index of one of them
ValidManager(mgr) ==
    /\ mgr.models # <<>>
    /\ 0 <= mgr.active_index
    /\ mgr.active_index < Len(mgr.models)

\* C23: after ConfigManager.load and any sequence of operations of the
\* configuration menu, models is non-empty and 0 <= active_index <
\* len(models), and the lookup models[active_index] of main.py never fails
C23_ActiveProfileAlwaysExists ==
    config_mgr # NoConfigManager =>
        /\ ValidManager(config_mgr)
        /\ pc # Crashed("IndexError")

\* the operations of the configuration menu keep a manager that has an
\* active profile one that has: what C23 says of the menu alone
MenuKeepsManagerValid ==
    [][(config_mgr # NoConfigManager /\ ValidManager(config_mgr))
          => ValidManager(config_mgr')]_vars

====
